---- MODULE Spec2Model ----
(***************************************************************************)
(* Model of package semver (src/semver.go): the Version record, the        *)
(* single-pass tokenizer Version.Parse, and the signDelta comparators.     *)
(*                                                                         *)
(* A Go string is a sequence of one-character strings; Go's 0-based        *)
(* offsets (idx, fromIdx) are kept, so str[i] of the source is str[i + 1]  *)
(* here.  The array t.version is a function on 0..13.                      *)
(***************************************************************************)
EXTENDS Integers, Sequences, FiniteSets, TLC

VARIABLES t, str, idx, fromIdx, fromLen, fieldNum, isAlpha, pc, err, parses,
          o, op, out

vars == <<t, str, idx, fromIdx, fromLen, fieldNum, isAlpha, pc, err, parses,
          o, op, out>>

(***************************************************************************)
(* Bounds of the model.                                                    *)
(***************************************************************************)
\* longest string of the exhaustive family ShortInputs
MaxLen == 4
\* most dot-separated columns written in one section of a StructuredInputs string
MaxCols == 5
\* most Parse calls made on one record
MaxParses == 2
\* largest value of a numeric slot of a record handed to the comparators
MaxVal == 1
\* largest build of a record handed to the comparators
MaxBuild == 1

(***************************************************************************)
(* Constants and tables of the package.                                    *)
(***************************************************************************)
alpha == -4
beta == -3
pre == -2
rc == -1
common == 0
revision == 1
patch == 2

idxReleaseType == 4
idxRelease == 5
idxSpecifierType == 9
idxSpecifier == 10

\* length of the array Version.version
NumSlots == 14

ErrInvalidVersionString == "Given string does not resemble a Version"
ErrTooMuchColumns == "Version consists of too much columns"
ErrTooLong == "Version is too long"
ErrNoBuild == "Version has no suffix +build and numbers"
\* the *strconv.NumError that strconv.Atoi returns (syntax or range)
ErrAtoi == "strconv.Atoi: NumError"
\* a run-time panic: index out of range
Panic == "panic: index out of range"
Nil == "nil"
\* no return statement reached yet: the loop goes on
Running == "running"

Digits == {"0", "1", "2", "3", "4", "5", "6", "7", "8", "9"}

Lower ==
  {"a", "b", "c", "d", "e", "f", "g", "h", "i", "j", "k", "l", "m",
   "n", "o", "p", "q", "r", "s", "t", "u", "v", "w", "x", "y", "z"}

\* '0' <= r && r <= '9'
IsDigit(r) == r \in Digits

\* 'a' <= r && r <= 'z'
IsLower(r) == r \in Lower

DigitVal(c) ==
  CASE c = "0" -> 0 [] c = "1" -> 1 [] c = "2" -> 2 [] c = "3" -> 3
    [] c = "4" -> 4 [] c = "5" -> 5 [] c = "6" -> 6 [] c = "7" -> 7
    [] c = "8" -> 8 [] c = "9" -> 9

\* the Go slice s[from:to]
Slice(s, from, to) == SubSeq(s, from + 1, to)

\* the keys of the map releaseValue
releaseKnown(tok) ==
  tok \in {<<"a", "l", "p", "h", "a">>, <<"b", "e", "t", "a">>,
           <<"p", "r", "e">>, <<>>, <<"r", "c">>, <<"r">>, <<"p">>}

\* releaseValue with the codes of alpha and beta exchanged
releaseValue_BetaFirst(tok) ==
  CASE tok = <<"a", "l", "p", "h", "a">> -> beta
    [] tok = <<"b", "e", "t", "a">> -> alpha
    [] tok = <<"p", "r", "e">> -> pre
    [] tok = <<>> -> pre
    [] tok = <<"r", "c">> -> rc
    [] tok = <<"r">> -> revision
    [] tok = <<"p">> -> patch

\* the map releaseValue, on its keys
releaseValue(tok) ==
  CASE tok = <<"a", "l", "p", "h", "a">> -> alpha
    [] tok = <<"b", "e", "t", "a">> -> beta
    [] tok = <<"p", "r", "e">> -> pre
    [] tok = <<>> -> pre
    [] tok = <<"r", "c">> -> rc
    [] tok = <<"r">> -> revision
    [] tok = <<"p">> -> patch

(***************************************************************************)
(* strconv.Atoi on a 64-bit int: an optional sign, then one or more        *)
(* decimal digits whose value lies in -2^63 .. 2^63 - 1.  The range is     *)
(* decided on the digits, so no value beyond the range is ever computed.   *)
(* DecimalValue is evaluated only for the runs of the input families,      *)
(* whose in-range values have at most three digits.                        *)
(***************************************************************************)
\* the decimal digits of 2^63 - 1, the largest int
MaxIntDigits ==
  <<"9", "2", "2", "3", "3", "7", "2", "0", "3", "6",
    "8", "5", "4", "7", "7", "5", "8", "0", "7">>

\* the decimal digits of 2^63, the magnitude of the smallest int
MinIntDigits ==
  <<"9", "2", "2", "3", "3", "7", "2", "0", "3", "6",
    "8", "5", "4", "7", "7", "5", "8", "0", "8">>

RECURSIVE StripZeros(_)
StripZeros(ds) ==
  IF Len(ds) > 1 /\ Head(ds) = "0" THEN StripZeros(Tail(ds)) ELSE ds

\* x <= y for two digit sequences of the same length
RECURSIVE DigitsLeq(_, _)
DigitsLeq(x, y) ==
  IF x = <<>> THEN TRUE
  ELSE IF DigitVal(Head(x)) < DigitVal(Head(y)) THEN TRUE
  ELSE IF DigitVal(Head(x)) > DigitVal(Head(y)) THEN FALSE
  ELSE DigitsLeq(Tail(x), Tail(y))

\* the magnitude ds fits an int of the given sign
InIntRange(ds, neg) ==
  LET d == StripZeros(ds)
      lim == IF neg THEN MinIntDigits ELSE MaxIntDigits
  IN  \/ Len(d) < Len(lim)
      \/ Len(d) = Len(lim) /\ DigitsLeq(d, lim)

RECURSIVE DecimalValue(_)
DecimalValue(ds) ==
  IF ds = <<>> THEN 0
  ELSE 10 * DecimalValue(SubSeq(ds, 1, Len(ds) - 1)) + DigitVal(ds[Len(ds)])

Atoi(s) ==
  LET signed == s # <<>> /\ Head(s) \in {"+", "-"}
      neg == s # <<>> /\ Head(s) = "-"
      ds == IF signed THEN Tail(s) ELSE s
  IN  IF ds = <<>> \/ \E i \in 1..Len(ds) : ~IsDigit(ds[i])
      THEN [ok |-> FALSE, n |-> 0]
      ELSE IF ~InIntRange(ds, neg)
      THEN [ok |-> FALSE, n |-> 0]
      ELSE [ok |-> TRUE,
            n |-> IF neg THEN 0 - DecimalValue(StripZeros(ds))
                  ELSE DecimalValue(StripZeros(ds))]

(***************************************************************************)
(* The Version record.                                                     *)
(***************************************************************************)
\* &Version{}: the zero value
ZeroVersion == [version |-> [i \in 0..(NumSlots - 1) |-> 0], build |-> 0]

(***************************************************************************)
(* Version.Parse.  A scan state holds the record and the locals of Parse;  *)
(* ret is Running until a return statement is reached.                     *)
(***************************************************************************)
\* the locals as declared at the top of Parse
StartScan(rec, s) ==
  [t |-> rec, str |-> s, idx |-> 0, fromIdx |-> 0, fromLen |-> 0,
   fieldNum |-> 0, isAlpha |-> FALSE, ret |-> Running]

\* a return statement
Return(st, e) == [st EXCEPT !.ret = e]

\* t.version[fieldNum] = v, an indexed write that panics out of range
StoreSlot(st, v) ==
  IF st.fieldNum \in 0..(NumSlots - 1)
  THEN [st EXCEPT !.t.version[st.fieldNum] = v]
  ELSE Return(st, Panic)

\* the token str[fromIdx:fromIdx+fromLen]
Token(st) == Slice(st.str, st.fromIdx, st.fromIdx + st.fromLen)

\* the switch with the release type slot in both cases
ClampToTypeSlot_AlwaysRelease(f) ==
  IF f <= idxSpecifierType THEN idxReleaseType ELSE -1

\* the switch that moves fieldNum up to the next type slot; -1 is its default case
ClampToTypeSlot(f) ==
  IF f <= idxReleaseType THEN idxReleaseType
  ELSE IF f <= idxSpecifierType THEN idxSpecifierType
  ELSE -1

\* convert, isAlpha branch
AlphaFlush(st) ==
  LET f == ClampToTypeSlot(st.fieldNum) IN
  IF f = -1 THEN Return(st, ErrInvalidVersionString)
  ELSE IF ~releaseKnown(Token(st))
  THEN Return([st EXCEPT !.fieldNum = f], ErrInvalidVersionString)
  ELSE StoreSlot([st EXCEPT !.fieldNum = f], releaseValue(Token(st)))

\* the numeric branch without the guard on the type slots
NumericFlush_NoTypeSlotGuard(st) ==
  LET a == Atoi(Token(st)) IN
  IF ~a.ok THEN Return(st, ErrAtoi) ELSE StoreSlot(st, a.n)

\* convert, numeric branch
NumericFlush(st) ==
  IF st.fieldNum = idxReleaseType \/ st.fieldNum = idxSpecifierType
  THEN Return(st, ErrTooMuchColumns)
  ELSE LET a == Atoi(Token(st)) IN
       IF ~a.ok THEN Return(st, ErrAtoi) ELSE StoreSlot(st, a.n)

\* convert, then fieldNum++ and fromLen = 0
Convert(st) ==
  LET s1 == IF st.isAlpha THEN AlphaFlush(st) ELSE NumericFlush(st) IN
  IF s1.ret # Running THEN s1
  ELSE [s1 EXCEPT !.fieldNum = @ + 1, !.fromLen = 0]

\* case '.' starting the next token on the dot itself
DispatchDot_StartsOnDot(st) == [st EXCEPT !.fromIdx = st.idx, !.isAlpha = FALSE]

\* case '.'
DispatchDot(st) == [st EXCEPT !.fromIdx = st.idx + 1, !.isAlpha = FALSE]

\* case '-', '_' without the step past the type slot
DispatchSeparator_NoSkip(st) ==
  LET from == st.idx + 1 IN
  IF Len(st.str) < from
  THEN Return([st EXCEPT !.fromIdx = from], ErrInvalidVersionString)
  ELSE IF from >= Len(st.str)
  THEN Return([st EXCEPT !.fromIdx = from], Panic)
  ELSE LET a == IsLower(st.str[from + 1])
           f == ClampToTypeSlot(st.fieldNum)
       IN  IF f = -1
           THEN Return([st EXCEPT !.fromIdx = from, !.isAlpha = a],
                       ErrInvalidVersionString)
           ELSE [st EXCEPT !.fromIdx = from, !.isAlpha = a, !.fieldNum = f]

\* case '-', '_'
DispatchSeparator(st) ==
  LET from == st.idx + 1 IN
  IF Len(st.str) < from
  THEN Return([st EXCEPT !.fromIdx = from], ErrInvalidVersionString)
  ELSE IF from >= Len(st.str)
  THEN Return([st EXCEPT !.fromIdx = from], Panic)
  ELSE LET a == IsLower(st.str[from + 1])
           f == ClampToTypeSlot(st.fieldNum)
       IN  IF f = -1
           THEN Return([st EXCEPT !.fromIdx = from, !.isAlpha = a],
                       ErrInvalidVersionString)
           ELSE [st EXCEPT !.fromIdx = from, !.isAlpha = a,
                           !.fieldNum = IF a THEN f ELSE f + 1]

\* case '+'
DispatchBuild(st) ==
  IF \/ Len(st.str) < st.idx + 7
     \/ Slice(st.str, st.idx, st.idx + 6) # <<"+", "b", "u", "i", "l", "d">>
  THEN Return(st, ErrNoBuild)
  ELSE LET a == Atoi(Slice(st.str, st.idx + 6, Len(st.str))) IN
       IF ~a.ok THEN Return(st, ErrAtoi)
       ELSE Return([st EXCEPT !.t.build = a.n], Nil)

\* default case
DispatchOther(st, r) ==
  [st EXCEPT !.fromIdx = st.idx, !.isAlpha = IsLower(r), !.fromLen = 1]

\* switch r
Dispatch(st, r) ==
  CASE r = "." -> DispatchDot(st)
    [] r \in {"-", "_"} -> DispatchSeparator(st)
    [] r = "+" -> DispatchBuild(st)
    [] OTHER -> DispatchOther(st, r)

\* the character at idx extends the pending token
Consumes(st) ==
  LET r == st.str[st.idx + 1] IN
  IF st.isAlpha THEN IsLower(r) ELSE IsDigit(r)

\* the iteration at idx ends in "continue"
Continues(st) == Consumes(st) /\ st.idx + 1 < Len(st.str)

\* one iteration of the loop over str, at offset idx < len(str)
LoopBody(st) ==
  LET r == st.str[st.idx + 1]
      s0 == IF Consumes(st) THEN [st EXCEPT !.fromLen = @ + 1] ELSE st
  IN  IF Continues(st) THEN [s0 EXCEPT !.idx = @ + 1]
      ELSE LET s1 == Convert(s0) IN
           IF s1.ret # Running THEN s1
           ELSE LET s2 == Dispatch(s1, r) IN
                IF s2.ret # Running THEN s2
                ELSE IF s2.fieldNum > 14 THEN Return(s2, ErrTooLong)
                ELSE [s2 EXCEPT !.idx = @ + 1]

\* the whole of Parse, from a scan state
RECURSIVE RunScan(_)
RunScan(st) ==
  IF st.ret # Running THEN st
  ELSE IF st.idx >= Len(st.str) THEN Return(st, Nil)
  ELSE RunScan(LoopBody(st))

\* t.Parse(s): the record left and the error returned
Parse(rec, s) == RunScan(StartScan(rec, s))

\* NewVersion(s)
NewVersion(s) == Parse(ZeroVersion, s)

(***************************************************************************)
(* The comparators.                                                        *)
(***************************************************************************)
\* the loop of signDelta from index i on
RECURSIVE signDeltaFrom(_, _, _, _)
signDeltaFrom(a, b, cutoffIdx, i) ==
  IF i >= NumSlots THEN 0
  ELSE IF i >= cutoffIdx THEN 0
  ELSE IF a[i] < b[i] THEN -1
  ELSE IF a[i] > b[i] THEN 1
  ELSE signDeltaFrom(a, b, cutoffIdx, i + 1)

signDelta(a, b, cutoffIdx) == signDeltaFrom(a, b, cutoffIdx, 0)

\* Compare stopping one slot short of the array
Compare_Cutoff13(a, b) == signDelta(a.version, b.version, 13)

Compare(a, b) == signDelta(a.version, b.version, 14)

\* Less with a non-strict tiebreak on build
Less_NonStrict(a, b) ==
  LET sd == signDelta(a.version, b.version, 15) IN
  sd < 0 \/ (sd = 0 /\ a.build <= b.build)

\* Less stopping one slot short of the array
Less_Cutoff13(a, b) ==
  LET sd == signDelta(a.version, b.version, 13) IN
  sd < 0 \/ (sd = 0 /\ a.build < b.build)

Less(a, b) ==
  LET sd == signDelta(a.version, b.version, 15) IN
  sd < 0 \/ (sd = 0 /\ a.build < b.build)

limitedLess(a, b) == signDelta(a.version, b.version, idxSpecifierType) < 0

\* sharesPrefixWith with the release type compared too
sharesPrefixWith_CutoffRelease(a, b) ==
  signDelta(a.version, b.version, idxRelease) = 0

sharesPrefixWith(a, b) == signDelta(a.version, b.version, idxReleaseType) = 0

\* LimitedEqual with the cutoff one slot too far
LimitedEqual_CutoffSpecifier(a, b) ==
  IF a.version[idxReleaseType] = common /\ b.version[idxReleaseType] > common
  THEN sharesPrefixWith(a, b)
  ELSE signDelta(a.version, b.version, idxSpecifier) = 0

LimitedEqual(a, b) ==
  IF a.version[idxReleaseType] = common /\ b.version[idxReleaseType] > common
  THEN sharesPrefixWith(a, b)
  ELSE signDelta(a.version, b.version, idxSpecifierType) = 0

\* IsAPreRelease with a non-strict comparison
IsAPreRelease_OrCommon(a) == a.version[idxReleaseType] <= common

IsAPreRelease(a) == a.version[idxReleaseType] < common

(***************************************************************************)
(* Input strings.                                                          *)
(***************************************************************************)
\* the characters of the exhaustive family: two digits, the four
\* punctuation marks of the grammar, a known one-letter type name, an
\* unknown one, and a character of neither class
Alphabet == {"1", "2", ".", "-", "_", "+", "r", "x", "X"}

\* every string of at most MaxLen characters over Alphabet
ShortInputs == UNION {[1..n -> Alphabet] : n \in 0..MaxLen}

\* the text of the i-th column of a section
ColumnDigit == <<"1", "2", "3", "4", "5", "6", "7", "8", "9">>

\* k dot-separated columns "1.2. ... .k"
RECURSIVE Cols(_)
Cols(k) ==
  IF k = 0 THEN <<>>
  ELSE IF k = 1 THEN <<ColumnDigit[1]>>
  ELSE Cols(k - 1) \o <<".", ColumnDigit[k]>>

\* the type names written after a separator: none, the six known ones, an unknown one
SectionNames ==
  {<<>>, <<"a", "l", "p", "h", "a">>, <<"b", "e", "t", "a">>, <<"p", "r", "e">>,
   <<"r", "c">>, <<"r">>, <<"p">>, <<"x">>}

\* a release or specifier section: separator, type name, k columns
Sections == {<<"-">> \o n \o Cols(k) : n \in SectionNames, k \in 0..MaxCols}

\* base columns, then at most two sections
StructuredInputs ==
  {Cols(k) \o s1 \o s2 :
     k \in 1..MaxCols, s1 \in Sections \cup {<<>>}, s2 \in Sections \cup {<<>>}}

\* what precedes a '+'
BuildPrefixes ==
  {<<"2", ".", "0">>, <<"1">>, <<"1", "-", "r", "c", "1">>, <<"1", ".">>,
   Cols(4) \o <<"-", "r">> \o Cols(4) \o <<"-", "p">> \o Cols(4)}

\* what follows the pending token from a '+' on
BuildSuffixes ==
  {<<"+", "b", "u", "i", "l", "d", "4", "2">>,
   <<"+", "b", "u", "i", "l", "d", "0", "7">>,
   <<"+", "b", "u", "i", "l", "d">>,
   <<"+", "b", "u", "i", "l", "d", "-", "5">>,
   <<"+", "b", "u", "i", "l", "d", "+", "5">>,
   <<"+", "b", "u", "i", "l", "d", "-">>,
   <<"+", "b", "u", "i", "l", "d", "4", "x">>,
   <<"+", "b", "u", "i", "l", "d", "4", ".", "2">>,
   <<"+", "b", "u", "i", "l", "d", "4", "-", "r">>,
   <<"+", "b", "u", "i", "l", "d", "x">>,
   <<"+", "b", "u", "i", "l", "4", "2">>,
   <<"+", "b", "u", "i", "l", "t", "4", "2">>,
   <<"+", "4", "2">>,
   <<"+">>,
   <<"+", "b", "u", "i", "l", "d">> \o MinIntDigits}

BuildInputs == {p \o s : p \in BuildPrefixes, s \in BuildSuffixes}

\* digit runs of several digits, up to runs beyond the range of int
LongRunInputs ==
  {<<"1", "0">>, <<"0", "0", "7">>, <<"1", "2", ".", "3", "4">>,
   <<"1", ".", "2", ".", "4", ".", "9", "9">>,
   <<"1", ".", "2", ".", "4", ".", "1", "0", "0">>,
   MinIntDigits, <<"1", ".">> \o MinIntDigits, MinIntDigits \o <<"0">>,
   <<"1", "-", "r">> \o MinIntDigits \o <<".", "1">>}

\* strings with a column 0 and with columns of several digits inside sections
ExampleInputs ==
  {<<"1", ".", "0", "-", "a", "l", "p", "h", "a">>,
   <<"1", ".", "0", "-", "b", "e", "t", "a">>,
   <<"1", ".", "0", "-", "r", "c", ".", "1">>,
   <<"1", ".", "0", ".", "0">>,
   <<"1", ".", "2", ".", "3">>,
   <<"1", ".", "2", ".", "3", "-", "p", "1">>,
   <<"1", ".", "2", "-", "6", "3", "4", ".", "0", "-", "9", "9", ".", "8">>,
   <<"1", ".", "2", "_", "6", "3", "4", ".", "0", "_", "9", "9", ".", "8">>}

\* base version, release section and specifier section, each ending in a column
TwoSectionPrefixes ==
  {<<"1", "-", "1", "-", "1">>, <<"1", "-", "r", "1", "-", "p", "1">>,
   <<"1", ".", "2", "-", "r", "c", "1", "_", "2", ".", "3">>}

\* what follows the two sections: a third separator, or a name
ThirdSectionTails ==
  {<<"-", "1">>, <<"_", "1">>, <<"-", "r">>, <<"-", "r", "1">>, <<"-">>, <<"_">>,
   <<"x">>, <<"r">>, <<"x", "y">>, <<"r", "c">>, <<"r", "c", "1">>,
   <<".", "1", "-", "1">>}

ThirdSectionInputs == {p \o s : p \in TwoSectionPrefixes, s \in ThirdSectionTails}

\* the strings handed to NewVersion
Inputs ==
  ShortInputs \cup StructuredInputs \cup BuildInputs \cup LongRunInputs
    \cup ExampleInputs \cup ThirdSectionInputs

\* the strings parsed into a record that an earlier Parse has filled
ReparseInputs ==
  {<<"7">>, <<"7", ".", "8">>, <<"7", "-", "p">>, <<"7", "-", "8">>,
   <<"7", "+", "b", "u", "i", "l", "d", "3">>, <<"7", ".", "x">>,
   Cols(4) \o <<"-", "r", "c">> \o Cols(4) \o <<"-", "p">> \o Cols(4)}

(***************************************************************************)
(* The state machine: one caller, one record t, one Parse at a time.       *)
(***************************************************************************)
\* the scan state held in the variables
Cur ==
  [t |-> t, str |-> str, idx |-> idx, fromIdx |-> fromIdx, fromLen |-> fromLen,
   fieldNum |-> fieldNum, isAlpha |-> isAlpha, ret |-> Running]

\* the variables take the scan state st
Load(st) ==
  /\ t' = st.t
  /\ str' = st.str
  /\ idx' = st.idx
  /\ fromIdx' = st.fromIdx
  /\ fromLen' = st.fromLen
  /\ fieldNum' = st.fieldNum
  /\ isAlpha' = st.isAlpha
  /\ err' = st.ret
  /\ pc' = IF st.ret = Running THEN "scan" ELSE "done"

Init ==
  /\ t = ZeroVersion
  /\ str = <<>>
  /\ idx = 0
  /\ fromIdx = 0
  /\ fromLen = 0
  /\ fieldNum = 0
  /\ isAlpha = FALSE
  /\ pc = "idle"
  /\ err = Running
  /\ parses = 0
  /\ o = ZeroVersion
  /\ op = "none"
  /\ out = FALSE

\* NewVersion(s): a fresh zero record, and Parse entered on it
CallNewVersion ==
  /\ pc = "idle"
  /\ \E s \in Inputs : Load(StartScan(ZeroVersion, s))
  /\ parses' = 1
  /\ UNCHANGED <<o, op, out>>

\* t.Parse(s) on the record an earlier Parse returned from
CallParse ==
  /\ pc = "done"
  /\ err # Panic
  /\ parses < MaxParses
  /\ \E s \in ReparseInputs : Load(StartScan(t, s))
  /\ parses' = parses + 1
  /\ UNCHANGED <<o, op, out>>

\* one iteration of the loop
Iterate ==
  /\ pc = "scan"
  /\ idx < Len(str)
  /\ Load(LoopBody(Cur))
  /\ UNCHANGED <<parses, o, op, out>>

\* the loop is over: return nil
LoopEnd ==
  /\ pc = "scan"
  /\ idx >= Len(str)
  /\ Load(Return(Cur, Nil))
  /\ UNCHANGED <<parses, o, op, out>>

Next == CallNewVersion \/ CallParse \/ Iterate \/ LoopEnd

Spec == Init /\ [][Next]_vars

(***************************************************************************)
(* The comparators on two records.  Every record drawn is one a Parse of   *)
(* a fresh record returns: type codes in the type slots, numbers           *)
(* elsewhere.  The slots that vary are the last one before each cutoff     *)
(* (3, 8, 13), the two type slots, and build.                              *)
(***************************************************************************)
CmpReleaseTypes == {rc, common, revision, patch}

CmpSpecifierTypes == {rc, common, patch}

CmpVersion(b, rt, rl, st, sp) ==
  [i \in 0..(NumSlots - 1) |->
     CASE i = idxReleaseType - 1 -> b
       [] i = idxReleaseType -> rt
       [] i = idxSpecifierType - 1 -> rl
       [] i = idxSpecifierType -> st
       [] i = NumSlots - 1 -> sp
       [] OTHER -> 0]

CmpRecords ==
  {[version |-> CmpVersion(b, rt, rl, st, sp), build |-> n] :
     b \in 0..MaxVal, rt \in CmpReleaseTypes, rl \in 0..MaxVal,
     st \in CmpSpecifierTypes, sp \in 0..MaxVal, n \in 0..MaxBuild}

InitCmp ==
  /\ t \in CmpRecords
  /\ o \in CmpRecords
  /\ str = <<>>
  /\ idx = 0
  /\ fromIdx = 0
  /\ fromLen = 0
  /\ fieldNum = 0
  /\ isAlpha = FALSE
  /\ pc = "cmp"
  /\ err = Nil
  /\ parses = 0
  /\ op = "none"
  /\ out = FALSE

\* t.LimitedEqual(o)
CallLimitedEqual ==
  /\ pc = "cmp"
  /\ op = "none"
  /\ op' = "LimitedEqual"
  /\ out' = LimitedEqual(t, o)
  /\ UNCHANGED <<t, str, idx, fromIdx, fromLen, fieldNum, isAlpha, pc, err, parses, o>>

\* Compare(t, o)
CallCompare ==
  /\ pc = "cmp"
  /\ op = "none"
  /\ op' = "Compare"
  /\ out' = Compare(t, o)
  /\ UNCHANGED <<t, str, idx, fromIdx, fromLen, fieldNum, isAlpha, pc, err, parses, o>>

\* t.Less(o)
CallLess ==
  /\ pc = "cmp"
  /\ op = "none"
  /\ op' = "Less"
  /\ out' = Less(t, o)
  /\ UNCHANGED <<t, str, idx, fromIdx, fromLen, fieldNum, isAlpha, pc, err, parses, o>>

\* t.sharesPrefixWith(o)
CallSharesPrefixWith ==
  /\ pc = "cmp"
  /\ op = "none"
  /\ op' = "sharesPrefixWith"
  /\ out' = sharesPrefixWith(t, o)
  /\ UNCHANGED <<t, str, idx, fromIdx, fromLen, fieldNum, isAlpha, pc, err, parses, o>>

\* t.IsAPreRelease()
CallIsAPreRelease ==
  /\ pc = "cmp"
  /\ op = "none"
  /\ op' = "IsAPreRelease"
  /\ out' = IsAPreRelease(t)
  /\ UNCHANGED <<t, str, idx, fromIdx, fromLen, fieldNum, isAlpha, pc, err, parses, o>>

(***************************************************************************)
(* The order specification draws the two records from a smaller family, so *)
(* that a property of Less can range over every third record of the       *)
(* family.  The records differ in a base column, the release type, the     *)
(* last slot and build.                                                    *)
(***************************************************************************)
OrdReleaseTypes == {rc, common, patch}

OrdRecords ==
  {[version |-> CmpVersion(b, rt, 0, common, sp), build |-> n] :
     b \in 0..MaxVal, rt \in OrdReleaseTypes, sp \in 0..MaxVal,
     n \in 0..MaxBuild}

InitOrd ==
  /\ t \in OrdRecords
  /\ o \in OrdRecords
  /\ str = <<>>
  /\ idx = 0
  /\ fromIdx = 0
  /\ fromLen = 0
  /\ fieldNum = 0
  /\ isAlpha = FALSE
  /\ pc = "cmp"
  /\ err = Nil
  /\ parses = 0
  /\ op = "none"
  /\ out = FALSE

NextOrd == CallLess

SpecOrd == InitOrd /\ [][NextOrd]_vars

NextCmp ==
  \/ CallLimitedEqual
  \/ CallCompare
  \/ CallLess
  \/ CallSharesPrefixWith
  \/ CallIsAPreRelease

SpecCmp == InitCmp /\ [][NextCmp]_vars

(***************************************************************************)
(* Properties.                                                             *)
(***************************************************************************)
Last(s) == s[Len(s)]

Separators == {"-", "_"}

\* the runs of s between its dots
RECURSIVE SplitDots(_)
SplitDots(s) ==
  IF \A i \in 1..Len(s) : s[i] # "." THEN <<s>>
  ELSE LET d == CHOOSE i \in 1..Len(s) :
                  s[i] = "." /\ \A j \in 1..(i - 1) : s[j] # "."
       IN  <<SubSeq(s, 1, d - 1)>> \o SplitDots(SubSeq(s, d + 1, Len(s)))

\* s is k dot-separated runs of digits, 1 <= k <= 4, and nothing else
IsColumns(s) ==
  /\ s # <<>>
  /\ \A i \in 1..Len(s) : s[i] \in Digits \cup {"."}
  /\ Len(SplitDots(s)) <= 4
  /\ \A i \in 1..Len(SplitDots(s)) : SplitDots(s)[i] # <<>>

\* the record that holds the values of the columns of s in slots 0.., 0 elsewhere
ColumnsRecord(s) ==
  [version |-> [i \in 0..(NumSlots - 1) |->
                  IF i < Len(SplitDots(s))
                  THEN DecimalValue(StripZeros(SplitDots(s)[i + 1]))
                  ELSE 0],
   build |-> 0]

\* C1: a Parse that returns nil leaves the record NewVersion builds from the
\* same string on a fresh zero record, whatever the record held before.
C1_ReparseOverwrites ==
  (pc = "done" /\ err = Nil) => t = NewVersion(str).t

\* the string ends in a lone digit right after a lowercase letter, and has no '+'
EndsNameDigit(s) ==
  /\ Len(s) >= 2
  /\ IsDigit(Last(s))
  /\ IsLower(s[Len(s) - 1])
  /\ \A i \in 1..Len(s) : s[i] # "+"

\* C2: when Parse succeeds on a fresh record for a string that ends in a
\* one-digit token right after a type name, that digit is stored in the
\* first column after the last type slot set (slot 5, or slot 10 when a
\* specifier type was stored).
C2_FinalTokenFlushed ==
  (pc = "done" /\ err = Nil /\ parses = 1 /\ EndsNameDigit(str)) =>
    t.version[IF t.version[idxSpecifierType] # common
              THEN idxSpecifier ELSE idxRelease] = DigitVal(Last(str))

\* C3: when the scan reaches a separator that is the last character of the
\* string, Parse returns ErrInvalidVersionString.
C3_DanglingSeparatorIsError ==
  (pc = "done" /\ str # <<>> /\ Last(str) \in Separators /\ fromIdx = Len(str)) =>
    err = ErrInvalidVersionString

\* four base columns, two sections of four columns, then '.' and one more number
FifteenColumnInputs ==
  {Cols(4) \o <<"-">> \o n1 \o Cols(4) \o <<"-">> \o n2 \o Cols(4) \o <<".", "5">> :
     n1 \in {n \in SectionNames : releaseKnown(n)},
     n2 \in {n \in SectionNames : releaseKnown(n)}}

\* C4: a string that supplies a numeric column after slots 0..13 are
\* filled makes Parse return the 'Version is too long' error.
C4_FifteenthColumnTooLong ==
  (pc = "done" /\ str \in FifteenColumnInputs) => err = ErrTooLong

\* C5: LimitedEqual is reflexive and symmetric.
C5_LimitedEqualSymmetric ==
  op = "LimitedEqual" =>
    /\ out = LimitedEqual(o, t)
    /\ (t = o => out)

\* the case in which LimitedEqual degrades to the prefix comparison
Degrades(a, b) ==
  a.version[idxReleaseType] = common /\ b.version[idxReleaseType] > common

\* slots 0..last of a and b are equal
AgreeUpTo(a, b, last) == \A i \in 0..last : a.version[i] = b.version[i]

\* C6 (as claimed): outside the degradation case, LimitedEqual holds iff the
\* records agree on slots 0..9, specifier type included.
C6_LimitedEqualThroughSpecifierType ==
  (op = "LimitedEqual" /\ ~Degrades(t, o)) =>
    (out <=> AgreeUpTo(t, o, idxSpecifierType))

\* C6 (amended): outside the degradation case, LimitedEqual holds iff the
\* records agree on slots 0..8; the specifier type (slot 9), slots 10..13
\* and build are ignored.
C6_LimitedEqualUpToReleaseColumns ==
  (op = "LimitedEqual" /\ ~Degrades(t, o)) =>
    (out <=> AgreeUpTo(t, o, idxSpecifierType - 1))

\* two records that differ in the specifier type are LimitedEqual
C6_Witness ==
  /\ op = "LimitedEqual"
  /\ ~Degrades(t, o)
  /\ out
  /\ t.version[idxSpecifierType] # o.version[idxSpecifierType]

\* s is base columns, at most one separator, and then a run of lowercase
\* letters that is no type name and ends the string
EndsInUnknownName(s) ==
  \E j \in 1..Len(s) :
    LET rest0 == SubSeq(s, j + 1, Len(s))
        rest == IF rest0 # <<>> /\ Head(rest0) \in Separators
                THEN Tail(rest0) ELSE rest0
    IN  /\ IsColumns(SubSeq(s, 1, j))
        /\ rest # <<>>
        /\ \A i \in 1..Len(rest) : IsLower(rest[i])
        /\ ~releaseKnown(rest)

\* C7: a run of lowercase letters at a type position that is no type name
\* makes Parse return ErrInvalidVersionString.
C7_UnknownNameRejected ==
  (pc = "done" /\ EndsInUnknownName(str)) => err = ErrInvalidVersionString

\* C8 (as claimed): every string of 1..4 dot-separated digit runs parses on
\* a fresh record, run i into slot i-1, every other slot and build 0.
C8_ColumnsStored ==
  (pc = "done" /\ parses = 1 /\ IsColumns(str)) =>
    (err = Nil /\ t = ColumnsRecord(str))

\* C8 (amended): the same, for the strings each of whose runs has a value
\* within the range of int.
C8_ColumnsStoredWhenInRange ==
  (/\ pc = "done"
   /\ parses = 1
   /\ IsColumns(str)
   /\ \A i \in 1..Len(SplitDots(str)) : InIntRange(SplitDots(str)[i], FALSE)) =>
    (err = Nil /\ t = ColumnsRecord(str))

\* "1.2.4.99" parsed into [1,2,4,99,0,...], build 0
C8_Witness ==
  /\ pc = "done"
  /\ parses = 1
  /\ str = <<"1", ".", "2", ".", "4", ".", "9", "9">>
  /\ err = Nil
  /\ t.version[3] = 99
  /\ t.version[2] = 4

\* the iteration at idx flushes a numeric token while fieldNum is a type slot
FlushesNumberOnTypeSlot ==
  /\ pc = "scan"
  /\ idx < Len(str)
  /\ ~Continues(Cur)
  /\ ~isAlpha
  /\ fieldNum \in {idxReleaseType, idxSpecifierType}

\* C9: a numeric token flushed while fieldNum is 4 or 9 makes Parse return
\* ErrTooMuchColumns, and "1.2.3.4.5" ends in that error.
C9_NumericOnTypeSlotRejected ==
  /\ [][FlushesNumberOnTypeSlot => (pc' = "done" /\ err' = ErrTooMuchColumns)]_vars
  /\ []((pc = "done" /\ str = Cols(5)) => err = ErrTooMuchColumns)

\* "1.2.3.4.5" rejected at its fifth column
C9_Witness ==
  /\ pc = "done"
  /\ str = Cols(5)
  /\ fieldNum = idxReleaseType
  /\ err = ErrTooMuchColumns

\* C10: a Parse that returns nil at a '+' has met exactly "+build" and one
\* or more decimal digits, without a sign, and build is their value.
C10_BuildSuffixUnsigned ==
  (pc = "done" /\ err = Nil /\ idx < Len(str) /\ str[idx + 1] = "+") =>
    /\ Slice(str, idx, idx + 6) = <<"+", "b", "u", "i", "l", "d">>
    /\ Len(str) > idx + 6
    /\ \A i \in (idx + 7)..Len(str) : IsDigit(str[i])
    /\ t.build = DecimalValue(Slice(str, idx + 6, Len(str)))

\* "1.2.3" is LimitedEqual to "1.2.3-p1"
C11_Example ==
  LimitedEqual(NewVersion(<<"1", ".", "2", ".", "3">>).t,
               NewVersion(<<"1", ".", "2", ".", "3", "-", "p", "1">>).t)

\* C11: when the receiver's release type is common and the argument's is
\* greater than common, LimitedEqual holds iff slots 0..3 agree, whatever
\* slots 4..13 and build hold; so "1.2.3" is LimitedEqual to "1.2.3-p1".
C11_PatchLevelDegradation ==
  /\ (op = "LimitedEqual" /\ Degrades(t, o)) =>
       (out <=> AgreeUpTo(t, o, idxReleaseType - 1))
  /\ C11_Example

\* a common record LimitedEqual to a patch record that differs from it in
\* the release columns, the specifier type, the last slot and build
C11_Witness ==
  /\ op = "LimitedEqual"
  /\ Degrades(t, o)
  /\ out
  /\ o.version[idxReleaseType] = patch
  /\ t.version[idxSpecifierType - 1] # o.version[idxSpecifierType - 1]
  /\ t.version[idxSpecifierType] # o.version[idxSpecifierType]
  /\ t.version[NumSlots - 1] # o.version[NumSlots - 1]
  /\ t.build # o.build

\* C12: Compare is an antisymmetric signum: its value is in {-1, 0, 1},
\* Compare(a, b) = -Compare(b, a), Compare(a, a) = 0, and it is 0 iff all
\* 14 slots are equal.
C12_CompareAntisymmetricSignum ==
  op = "Compare" =>
    /\ out \in {-1, 0, 1}
    /\ out = 0 - Compare(o, t)
    /\ Compare(t, t) = 0
    /\ (out = 0 <=> t.version = o.version)

\* two records that differ in the last slot only, and compare as -1
C12_Witness ==
  /\ op = "Compare"
  /\ out = -1
  /\ AgreeUpTo(t, o, NumSlots - 2)
  /\ t.version[NumSlots - 1] < o.version[NumSlots - 1]

\* C13: Less is a strict total order: it is irreflexive, transitive, and
\* of two records that differ in a slot or in build exactly one is Less
\* than the other.
C13_LessStrictTotalOrder ==
  op = "Less" =>
    /\ ~Less(t, t)
    /\ ~Less(o, o)
    /\ \A c \in OrdRecords : (out /\ Less(o, c)) => Less(t, c)
    /\ t # o => (out <=> ~Less(o, t))
    /\ t = o => ~out

\* t before o by build alone, and o before a third record by a slot
C13_Witness ==
  /\ op = "Less"
  /\ out
  /\ t.version = o.version
  /\ t.build < o.build
  /\ \E c \in OrdRecords :
       /\ Less(o, c)
       /\ c.build < o.build
       /\ Less(t, c)

\* a without its build
NoBuild(a) == [a EXCEPT !.build = 0]

\* C14: build takes part in no comparison except as the last tiebreak of
\* Less: Compare, LimitedEqual, sharesPrefixWith and IsAPreRelease give
\* the same result with both builds removed, and Less holds iff Compare is
\* -1, or Compare is 0 and the receiver's build is smaller.
C14_BuildOnlyBreaksTiesOfLess ==
  /\ op = "Compare" => out = Compare(NoBuild(t), NoBuild(o))
  /\ op = "LimitedEqual" => out = LimitedEqual(NoBuild(t), NoBuild(o))
  /\ op = "sharesPrefixWith" => out = sharesPrefixWith(NoBuild(t), NoBuild(o))
  /\ op = "IsAPreRelease" => out = IsAPreRelease(NoBuild(t))
  /\ op = "Less" =>
       (out <=> \/ Compare(t, o) = -1
                \/ Compare(t, o) = 0 /\ t.build < o.build)

\* two records equal in all 14 slots, ordered by build alone
C14_Witness ==
  /\ op = "Less"
  /\ out
  /\ t.version = o.version
  /\ t.version[NumSlots - 1] # 0
  /\ t.build < o.build

\* the release type names from the least mature to the most mature; the
\* empty name stands for a version without a release type
TypeOrder ==
  <<(<<"a", "l", "p", "h", "a">>), (<<"b", "e", "t", "a">>), (<<"p", "r", "e">>),
    (<<"r", "c">>), (<<>>), (<<"r">>), (<<"p">>)>>

\* k base columns, then the i-th type of TypeOrder followed by j columns
WithType(k, i, j) ==
  Cols(k) \o (IF TypeOrder[i] = <<>> /\ j = 0 THEN <<>>
              ELSE <<"-">> \o TypeOrder[i] \o Cols(j))

\* C15: of two inputs with the same base version that differ only in the
\* release type name (or its absence), the first parses to a record Less
\* than the second's iff its type comes first in alpha < beta < pre < rc <
\* none < r < p; so "1.0-alpha" is Less than "1.0-beta".
C15_ReleaseTypesOrderByMaturity ==
  /\ (pc = "done" /\ parses = 1) =>
       \A k \in 1..idxReleaseType, i \in 1..Len(TypeOrder),
          j \in 0..(idxSpecifierType - idxRelease) :
         str = WithType(k, i, j) =>
           /\ err = Nil
           /\ \A i2 \in 1..Len(TypeOrder) :
                /\ NewVersion(WithType(k, i2, j)).ret = Nil
                /\ Less(t, NewVersion(WithType(k, i2, j)).t) <=> i < i2
  /\ (pc = "done" /\ parses = 1
        /\ str = <<"1", ".", "0", "-", "a", "l", "p", "h", "a">>) =>
       /\ err = Nil
       /\ Less(t, NewVersion(<<"1", ".", "0", "-", "b", "e", "t", "a">>).t)

\* "1.2-alpha1.2" parsed: Less than "1.2-beta1.2", and "1.2-rc1.2" Less than
\* "1.2-1.2"
C15_Witness ==
  /\ pc = "done"
  /\ parses = 1
  /\ str = WithType(2, 1, 2)
  /\ err = Nil
  /\ t.version[idxReleaseType] = alpha
  /\ t.version[idxRelease] = 1
  /\ Less(t, NewVersion(WithType(2, 2, 2)).t)
  /\ Less(NewVersion(WithType(2, 4, 2)).t, NewVersion(WithType(2, 5, 2)).t)

\* the position of the first lowercase letter of s, 0 when it has none
FirstLower(s) ==
  IF \A i \in 1..Len(s) : ~IsLower(s[i]) THEN 0
  ELSE CHOOSE i \in 1..Len(s) :
         IsLower(s[i]) /\ \A j \in 1..(i - 1) : ~IsLower(s[j])

\* the lowercase run of s that starts at position i
RunFrom(s, i) ==
  LET e == CHOOSE n \in i..Len(s) :
             /\ \A j \in i..n : IsLower(s[j])
             /\ (n = Len(s) \/ ~IsLower(s[n + 1]))
  IN  SubSeq(s, i, e)

\* the type name of the release section of s: its first lowercase run, when
\* no separator stands before it except directly in front of it; the empty
\* name when s has no release section or one introduced by a bare number
ReleaseTypeName(s) ==
  LET i == FirstLower(s) IN
  IF i = 0 THEN <<>>
  ELSE IF \E j \in 1..(i - 2) : s[j] \in Separators THEN <<>>
  ELSE RunFrom(s, i)

PreReleaseNames ==
  {<<"a", "l", "p", "h", "a">>, <<"b", "e", "t", "a">>, <<"p", "r", "e">>,
   <<"r", "c">>}

\* C16: after a successful parse into a fresh record, IsAPreRelease is true
\* iff the string has a release section whose type name is alpha, beta, pre
\* or rc; true for "1.0-rc.1", false for "1.0.0".
C16_PreReleaseIffNamedSo ==
  /\ (pc = "done" /\ parses = 1 /\ err = Nil) =>
       (IsAPreRelease(t) <=> ReleaseTypeName(str) \in PreReleaseNames)
  /\ (pc = "done" /\ parses = 1
        /\ str = <<"1", ".", "0", "-", "r", "c", ".", "1">>) =>
       (err = Nil /\ IsAPreRelease(t))
  /\ (pc = "done" /\ parses = 1 /\ str = <<"1", ".", "0", ".", "0">>) =>
       (err = Nil /\ ~IsAPreRelease(t))

\* "1.0-rc.1" parsed into a pre-release with release column 1
C16_Witness ==
  /\ pc = "done"
  /\ parses = 1
  /\ str = <<"1", ".", "0", "-", "r", "c", ".", "1">>
  /\ err = Nil
  /\ IsAPreRelease(t)
  /\ t.version[idxReleaseType] = rc
  /\ t.version[idxRelease] = 1

\* k0 base columns, then a separator and k1 columns, then (when k2 > 0) a
\* separator and k2 columns
BareSections(k0, k1, k2) ==
  Cols(k0) \o <<"-">> \o Cols(k1) \o (IF k2 = 0 THEN <<>> ELSE <<"-">> \o Cols(k2))

\* the record with columns 1..k0 from slot 0, 1..k1 from slot 5, 1..k2 from
\* slot 10, and 0 elsewhere
BareSectionsRecord(k0, k1, k2) ==
  [version |-> [i \in 0..(NumSlots - 1) |->
                  IF i < k0 THEN i + 1
                  ELSE IF i >= idxRelease /\ i < idxRelease + k1
                  THEN i - idxRelease + 1
                  ELSE IF i >= idxSpecifier /\ i < idxSpecifier + k2
                  THEN i - idxSpecifier + 1
                  ELSE 0],
   build |-> 0]

\* the scan stands on a separator that a digit follows
OnSeparatorBeforeDigit ==
  /\ pc = "scan"
  /\ idx + 1 < Len(str)
  /\ str[idx + 1] \in Separators
  /\ IsDigit(str[idx + 2])

\* the record of "1.2-634.0-99.8"
SkipExampleRecord ==
  [version |-> [i \in 0..(NumSlots - 1) |->
                  CASE i = 0 -> 1 [] i = 1 -> 2 [] i = idxRelease -> 634
                    [] i = idxSpecifier -> 99 [] i = idxSpecifier + 1 -> 8
                    [] OTHER -> 0],
   build |-> 0]

\* C17: a separator followed directly by a digit skips the type slot: the
\* step over such a separator, when it does not return, leaves fieldNum at
\* 5 or 10 and the type slot before it untouched; and on a fresh record the
\* type slots stay 0 and the columns after each separator are stored from
\* slot 5 and from slot 10, as in "1.2-634.0-99.8".
C17_SeparatorBeforeDigitSkipsTypeSlot ==
  /\ [][(OnSeparatorBeforeDigit /\ pc' = "scan") =>
          /\ fieldNum' \in {idxRelease, idxSpecifier}
          /\ t'.version[fieldNum' - 1] = t.version[fieldNum' - 1]]_vars
  /\ [](\A k0 \in 1..idxReleaseType, k1 \in 1..idxReleaseType,
           k2 \in 0..idxReleaseType :
          (pc = "done" /\ parses = 1 /\ str = BareSections(k0, k1, k2)) =>
            (err = Nil /\ t = BareSectionsRecord(k0, k1, k2)))
  /\ []((/\ pc = "done"
         /\ parses = 1
         /\ str \in {<<"1", ".", "2", "-", "6", "3", "4", ".", "0", "-", "9", "9", ".", "8">>,
                     <<"1", ".", "2", "_", "6", "3", "4", ".", "0", "_", "9", "9", ".", "8">>}) =>
          (err = Nil /\ t = SkipExampleRecord))

\* "1.2-634.0-99.8" parsed: 634 in slot 5, 99 and 8 in slots 10 and 11
C17_Witness ==
  /\ pc = "done"
  /\ parses = 1
  /\ str = <<"1", ".", "2", "-", "6", "3", "4", ".", "0", "-", "9", "9", ".", "8">>
  /\ err = Nil
  /\ t.version[idxReleaseType] = 0
  /\ t.version[idxRelease] = 634
  /\ t.version[idxSpecifierType] = 0
  /\ t.version[idxSpecifier] = 99
  /\ t.version[idxSpecifier + 1] = 8

\* the number of separators among the first n characters of s
RECURSIVE SeparatorCount(_, _)
SeparatorCount(s, n) ==
  IF n = 0 THEN 0
  ELSE SeparatorCount(s, n - 1) + (IF s[n] \in Separators THEN 1 ELSE 0)

\* s holds a lowercase letter after its second separator
NameAfterBothSections(s) ==
  \E i \in 1..Len(s) : IsLower(s[i]) /\ SeparatorCount(s, i) >= 2

\* C18: at most two sections follow the base version: Parse never succeeds
\* on an input with a third separator, nor on an input with a name after
\* the two sections.
C18_ThirdSectionRejected ==
  (/\ pc = "done"
   /\ parses = 1
   /\ \/ SeparatorCount(str, Len(str)) >= 3
      \/ str \in ThirdSectionInputs /\ NameAfterBothSections(str)) =>
    err # Nil

\* C19: Parse succeeds only on strings that start with a digit and in which
\* a digit follows every '.'; so it fails on "" and on "1.".
C19_SucceedsOnlyOnWellFormedColumns ==
  (pc = "done" /\ err = Nil) =>
    /\ str # <<>>
    /\ IsDigit(str[1])
    /\ \A i \in 1..Len(str) :
         str[i] = "." => (i < Len(str) /\ IsDigit(str[i + 1]))

\* the type codes
TypeCodes == alpha..patch

\* the slots that hold a type code
TypeSlots == {idxReleaseType, idxSpecifierType}

\* C20: after a successful parse into a fresh record the two type slots
\* hold type codes and every other slot holds a non-negative number; and
\* during a scan fieldNum never decreases and a step changes only slots
\* from fieldNum on and before the new fieldNum, so that no slot is written
\* twice.
C20_SinglePassSlotInvariant ==
  /\ []((pc = "done" /\ parses = 1 /\ err = Nil) =>
          \A i \in 0..(NumSlots - 1) :
            IF i \in TypeSlots THEN t.version[i] \in TypeCodes
            ELSE t.version[i] >= 0)
  /\ [][pc = "scan" =>
          /\ fieldNum' >= fieldNum
          /\ \A i \in 0..(NumSlots - 1) :
               t'.version[i] # t.version[i] => (fieldNum <= i /\ i < fieldNum')]_vars

\* a parse that has filled the last slot, with both type slots set
C20_Witness ==
  /\ pc = "done"
  /\ parses = 1
  /\ err = Nil
  /\ fieldNum = NumSlots
  /\ t.version[idxReleaseType] = revision
  /\ t.version[idxSpecifierType] = patch
  /\ t.version[NumSlots - 1] = 4

====
